---- MODULE Spec2Model ----
(***************************************************************************)
(* Hybrid search and ranking engine of the Culture platform:               *)
(* SearchService (app/services/search.py), SearchCache                     *)
(* (app/services/cache.py), the post write path (app/blueprints/posts.py)  *)
(* and the embedding task (app/tasks/__init__.py).                         *)
(*                                                                         *)
(* Number conventions.  A raw channel score r (ts_rank, cosine similarity) *)
(* is the integer r standing for r/10.  A normalized score n stands for    *)
(* n/Unit, a fused score h for h/(10*Unit), a min_score m for m/10 and a   *)
(* score of a response for s/10000 (round(score, 4)).  Unit is divisible   *)
(* by every channel maximum, so score / max_score is computed exactly.     *)
(***************************************************************************)
EXTENDS Integers, Sequences, FiniteSets, TLC

VARIABLES
    posts,           \* table posts: post id -> row
    agents,          \* table agents: id -> row
    queue,           \* post ids whose generate_post_embedding task is queued
    cache,           \* the Redis db of SearchCache: key -> stored payload
    use_cache,       \* SearchService.use_cache
    pc,              \* where the caller's current search call stands
    req,             \* the parameters of the current call
    text_results,    \* locals of search_posts
    vector_results,
    combined,
    resp,            \* the response of the current call
    log,             \* backend operations and printed errors of the current call
    prev,            \* what the caller keeps of its earlier call(s)
    touched,         \* posts created or deleted since the caller's last call returned
    now,             \* the clock of the Redis server (kept in SpecCache only)
    ttls             \* Redis expiry data: key -> time of the setex and its ttl

vars == <<posts, agents, queue, cache, use_cache, pc, req, text_results,
          vector_results, combined, resp, log, prev, touched, now, ttls>>

None == "None"

\* ---------------------------------------------------------------- bounds
\* Largest raw channel score (in tenths) the store returns.
MaxRaw == 3
\* Number of post ids of the store.
MaxPosts == 2
\* Number of post ids of the store the pagination calls run over.
PageDocs == 5

PostIds == 1..MaxPosts

RECURSIVE Fact(_)
Fact(n) == IF n <= 1 THEN 1 ELSE n * Fact(n - 1)

\* The value of a normalized score of 1.0.
Unit == Fact(MaxRaw)

Modes == {"text", "semantic", "hybrid"}

\* ------------------------------------------------------- sequence helpers
RECURSIVE SeqFilter(_, _)
\* The subsequence of s whose elements lie in the set keep.
SeqFilter(s, keep) ==
    IF s = <<>> THEN <<>>
    ELSE IF Head(s) \in keep THEN <<Head(s)>> \o SeqFilter(Tail(s), keep)
         ELSE SeqFilter(Tail(s), keep)

Range(s) == {s[i] : i \in 1..Len(s)}

\* All orders (sequences without repetition) of the elements of the set S.
Orders(S) ==
    {s \in [1..Cardinality(S) -> S] : \A i, j \in 1..Cardinality(S) : s[i] = s[j] => i = j}

\* Python slice s[lo:hi] for 0 <= lo, 0 <= hi.
Slice(s, lo, hi) ==
    LET a == IF lo > Len(s) THEN Len(s) ELSE lo
        b == IF hi > Len(s) THEN Len(s) ELSE hi
    IN  IF b <= a THEN <<>> ELSE SubSeq(s, a + 1, b)

\* x inserted behind every element whose score is >= x.score: one step of a
\* stable sort by score descending.
InsertDesc(s, x) ==
    LET k == Cardinality({i \in 1..Len(s) : s[i].score >= x.score})
        \* s is sorted descending, so the elements >= x.score are a prefix
    IN  SubSeq(s, 1, k) \o <<x>> \o SubSeq(s, k + 1, Len(s))

RECURSIVE SortDesc(_)
\* list.sort(key=score, reverse=True) / ORDER BY score DESC: stable, so
\* elements of equal score keep the order they had in s.
SortDesc(s) ==
    IF s = <<>> THEN <<>>
    ELSE InsertDesc(SortDesc(SubSeq(s, 1, Len(s) - 1)), s[Len(s)])

\* str.strip() on a query given as a sequence of characters.
RECURSIVE LStrip(_)
LStrip(q) == IF q # <<>> /\ Head(q) = " " THEN LStrip(Tail(q)) ELSE q

RECURSIVE RStrip(_)
RStrip(q) ==
    IF q # <<>> /\ q[Len(q)] = " " THEN RStrip(SubSeq(q, 1, Len(q) - 1)) ELSE q

Strip(q) == RStrip(LStrip(q))

\* Mutant: the length is taken without trimming.
QueryTooShort_untrimmed(q) == q = <<>> \/ Len(q) < 2

\* `not query or len(query.strip()) < 2`
QueryTooShort(q) == q = <<>> \/ Len(Strip(q)) < 2

\* ------------------------------------------------------------ the store
\* A row of table posts as one query sees it.  rank is ts_rank of the query
\* over content || super_post (0: the tsquery does not match), sim is
\* 1 - cosine distance of the stored embedding to the query embedding, and
\* embedded says whether embedding_content is populated.
NoPost == [exists |-> FALSE, is_deleted |-> FALSE, rank |-> 0, sim |-> 0,
           embedded |-> FALSE, agent_id |-> None]

NewPost(rank, sim, agent) ==
    [exists |-> TRUE, is_deleted |-> FALSE, rank |-> rank, sim |-> sim,
     embedded |-> FALSE, agent_id |-> agent]

\* `(:agent_id IS NULL OR agent_id = :agent_id)`
AgentFilter(row, agent_id) == agent_id = None \/ row.agent_id = agent_id

\* Rows the lexical statement selects, ORDER BY score DESC; tie is the order
\* the store gives rows of equal score.
TextRows(P, agent_id, tie) ==
    LET hit == {p \in DOMAIN P : /\ P[p].exists
                                 /\ ~P[p].is_deleted
                                 /\ P[p].rank > 0
                                 /\ AgentFilter(P[p], agent_id)}
        ids == SeqFilter(tie, hit)
    IN  SortDesc([i \in 1..Len(ids) |-> [id |-> ids[i], score |-> P[ids[i]].rank]])

\* Mutant: the statement without `embedding_content IS NOT NULL`.
VectorRows_unfiltered(P, agent_id, tie) ==
    LET hit == {p \in DOMAIN P : /\ P[p].exists
                                 /\ ~P[p].is_deleted
                                 /\ AgentFilter(P[p], agent_id)}
        ids == SeqFilter(tie, hit)
    IN  SortDesc([i \in 1..Len(ids) |-> [id |-> ids[i], score |-> P[ids[i]].sim]])

\* Rows the vector statement selects, ORDER BY distance (similarity descending).
VectorRows(P, agent_id, tie) ==
    LET hit == {p \in DOMAIN P : /\ P[p].exists
                                 /\ ~P[p].is_deleted
                                 /\ P[p].embedded
                                 /\ AgentFilter(P[p], agent_id)}
        ids == SeqFilter(tie, hit)
    IN  SortDesc([i \in 1..Len(ids) |-> [id |-> ids[i], score |-> P[ids[i]].sim]])

\* `[(row[0], float(row[1])) for row in result if row[1] >= min_score]`
\* Mutant: the rows are not filtered by min_score.
AtLeast_unfiltered(rows, min_score) == rows

\* `[... for row in result if row[1] >= min_score]`
AtLeast(rows, min_score) ==
    SeqFilter(rows, {x \in Range(rows) : x.score >= min_score})

\* SearchService._text_search_posts: LIMIT :limit OFFSET :offset, then the
\* min_score filter.
TextSearchPosts(P, limit, offset, agent_id, min_score, tie) ==
    AtLeast(Slice(TextRows(P, agent_id, tie), offset, offset + limit), min_score)

\* SearchService._vector_search_posts.
VectorSearchPosts(P, limit, offset, agent_id, min_score, tie) ==
    AtLeast(Slice(VectorRows(P, agent_id, tie), offset, offset + limit), min_score)

\* ------------------------------------------------------------ the combiner
MaxScore(results) ==
    CHOOSE m \in {x.score : x \in Range(results)} :
        \A x \in Range(results) : x.score <= m

\* score / max_score, in units of 1/Unit.
Divide(score, max_score) ==
    IF max_score > 0 THEN (score * Unit) \div max_score
    ELSE ((0 - score) * Unit) \div (0 - max_score)

\* Mutant: the scores are not divided by the batch maximum.
normalize_scores_raw(results) ==
    IF results = <<>> THEN <<>>
    ELSE LET ids == {x.id : x \in Range(results)}
             raw(p) == (CHOOSE x \in Range(results) : x.id = p).score
         IN  [p \in ids |-> raw(p) * Unit]

\* normalize_scores of _combine_results: a dict post_id -> normalized score.
normalize_scores(results) ==
    IF results = <<>> THEN <<>>
    ELSE LET max_score == MaxScore(results)
             ids == {x.id : x \in Range(results)}
             raw(p) == (CHOOSE x \in Range(results) : x.id = p).score
         IN  IF max_score = 0 THEN [p \in ids |-> 0]
             ELSE [p \in ids |-> Divide(raw(p), max_score)]

\* dict.get(post_id, 0.0)
Get(d, p) == IF p \in DOMAIN d THEN d[p] ELSE 0

\* Mutant: the two weights exchanged.
hybrid_score_swapped(text_score, vector_score) == (text_score * 6) + (vector_score * 4)

\* `(text_score * 0.4) + (vector_score * 0.6)`, in units of 1/(10*Unit).
hybrid_score(text_score, vector_score) == (text_score * 4) + (vector_score * 6)

\* Mutant: the chain falls through to 'text' instead of 'semantic'.
match_type_text_last(text_score, vector_score) ==
    IF text_score > 0 /\ vector_score > 0 THEN "hybrid"
    ELSE IF vector_score > 0 THEN "semantic"
    ELSE "text"

\* The match_type chain of _combine_results.
match_type(text_score, vector_score) ==
    IF text_score > 0 /\ vector_score > 0 THEN "hybrid"
    ELSE IF text_score > 0 THEN "text"
    ELSE "semantic"

\* Mutant: the sorted list is returned whole.
combine_results_unsliced(text_res, vector_res, limit, offset, min_score, iter) ==
    LET text_scores == normalize_scores(text_res)
        vector_scores == normalize_scores(vector_res)
        all_post_ids == DOMAIN text_scores \cup DOMAIN vector_scores
        kept == {p \in all_post_ids :
                    hybrid_score(Get(text_scores, p), Get(vector_scores, p))
                        >= min_score * Unit}
        ids == SeqFilter(iter, kept)
        entry(p) == [post_id |-> p,
                     score |-> hybrid_score(Get(text_scores, p), Get(vector_scores, p)),
                     match_type |-> match_type(Get(text_scores, p), Get(vector_scores, p))]
    IN  SortDesc([i \in 1..Len(ids) |-> entry(ids[i])])

\* SearchService._combine_results.  iter is the order in which the set
\* all_post_ids is iterated.
combine_results(text_res, vector_res, limit, offset, min_score, iter) ==
    LET text_scores == normalize_scores(text_res)
        vector_scores == normalize_scores(vector_res)
        all_post_ids == DOMAIN text_scores \cup DOMAIN vector_scores
        kept == {p \in all_post_ids :
                    hybrid_score(Get(text_scores, p), Get(vector_scores, p))
                        >= min_score * Unit}
        ids == SeqFilter(iter, kept)
        entry(p) == [post_id |-> p,
                     score |-> hybrid_score(Get(text_scores, p), Get(vector_scores, p)),
                     match_type |-> match_type(Get(text_scores, p), Get(vector_scores, p))]
        sorted == SortDesc([i \in 1..Len(ids) |-> entry(ids[i])])
    IN  Slice(sorted, offset, offset + limit)

\* The list comprehension of the text and semantic branches of search_posts:
\* the raw channel score, brought to the unit of a fused score.
SingleChannel(raw_results, mt) ==
    [i \in 1..Len(raw_results) |->
        [post_id |-> raw_results[i].id,
         score |-> raw_results[i].score * Unit,
         match_type |-> mt]]

\* round(score, 4): the score in units of 1/10000, half to even.
Round4(score) ==
    LET q == (score * 1000) \div Unit
        r == (score * 1000) % Unit
    IN  IF 2 * r < Unit THEN q
        ELSE IF 2 * r > Unit THEN q + 1
        ELSE IF q % 2 = 0 THEN q ELSE q + 1

\* Mutant: the hydrated results come out in reverse order.
enrich_post_results_reversed(results, P) ==
    LET posts_by_id == {p \in DOMAIN P : P[p].exists}
        found == SeqFilter(results, {x \in Range(results) : x.post_id \in posts_by_id})
        n == Len(found)
    IN  [i \in 1..n |->
            [post_id |-> found[n + 1 - i].post_id,
             score |-> Round4(found[n + 1 - i].score),
             match_type |-> found[n + 1 - i].match_type]]

\* SearchService._enrich_post_results: Post.query.filter(Post.id.in_(ids))
\* selects every existing row, soft-deleted or not.
enrich_post_results(results, P) ==
    LET posts_by_id == {p \in DOMAIN P : P[p].exists}
        found == SeqFilter(results, {x \in Range(results) : x.post_id \in posts_by_id})
    IN  [i \in 1..Len(found) |->
            [post_id |-> found[i].post_id,
             score |-> Round4(found[i].score),
             match_type |-> found[i].match_type]]

\* `limit = min(limit, 100)`
CapLimit(limit) == IF limit < 100 THEN limit ELSE 100

\* The response dict of search_posts on a miss.
Response(query, enriched) ==
    [query |-> query, count |-> Len(enriched), total_matches |-> Len(enriched),
     results |-> enriched, cache_hit |-> FALSE, error |-> None]

\* The early return of SearchService.search_posts for a short query.
EmptyResponse(query) ==
    [query |-> query, count |-> 0, total_matches |-> 0, results |-> <<>>,
     cache_hit |-> FALSE, error |-> None]

\* The error dict of CultureSearchTool.search_posts.
ErrorResponse(query, message) ==
    [query |-> query, count |-> 0, results |-> <<>>,
     cache_hit |-> FALSE, error |-> message]

\* ------------------------------------------------ search_posts, on a miss
\* Mutant: the hybrid branch hands the caller's offset to the lexical
\* statement.
TextResultsOf_paged(P, r, tie) ==
    IF r.mode = "text"
    THEN TextSearchPosts(P, CapLimit(r.limit), r.offset, r.agent_id, r.min_score, tie)
    ELSE IF r.mode = "semantic" THEN <<>>
    ELSE TextSearchPosts(P, CapLimit(r.limit) * 2, r.offset, r.agent_id, 0, tie)

\* The retrieval calls of the three branches of search_posts.
TextResultsOf(P, r, tie) ==
    IF r.mode = "text"
    THEN TextSearchPosts(P, CapLimit(r.limit), r.offset, r.agent_id, r.min_score, tie)
    ELSE IF r.mode = "semantic" THEN <<>>
    ELSE TextSearchPosts(P, CapLimit(r.limit) * 2, 0, r.agent_id, 0, tie)

\* Mutant: the hybrid branch fetches four times the limit from the vector
\* channel.
VectorResultsOf_wide(P, r, tie) ==
    IF r.mode = "text" THEN <<>>
    ELSE IF r.mode = "semantic"
    THEN VectorSearchPosts(P, CapLimit(r.limit), r.offset, r.agent_id, r.min_score, tie)
    ELSE VectorSearchPosts(P, CapLimit(r.limit) * 4, 0, r.agent_id, 0, tie)

VectorResultsOf(P, r, tie) ==
    IF r.mode = "text" THEN <<>>
    ELSE IF r.mode = "semantic"
    THEN VectorSearchPosts(P, CapLimit(r.limit), r.offset, r.agent_id, r.min_score, tie)
    ELSE VectorSearchPosts(P, CapLimit(r.limit) * 2, 0, r.agent_id, 0, tie)

\* `results` of search_posts before enrichment.
ResultsOf(r, text_res, vector_res, iter) ==
    IF r.mode = "text" THEN SingleChannel(text_res, "text")
    ELSE IF r.mode = "semantic" THEN SingleChannel(vector_res, "semantic")
    ELSE combine_results(text_res, vector_res, CapLimit(r.limit), r.offset,
                         r.min_score, iter)

ValidQuery == <<"a", "b">>

\* Rows of equal score in ascending id order.
ById == [i \in 1..MaxPosts |-> i]

\* One whole search_posts call of a service constructed with use_cache=False:
\* the retrieved batches, the ranked list and the response.
SearchPostsNoCache(P, r, tie) ==
    LET t == TextResultsOf(P, r, tie)
        v == VectorResultsOf(P, r, tie)
        c == ResultsOf(r, t, v, tie)
    IN  [text |-> t, vector |-> v, combined |-> c,
         response |-> Response(r.query, enrich_post_results(c, P))]

\* ------------------------------------------------------------------------
\* SpecRank: search_posts without a cache (use_cache = False) over every
\* small store, one call per step.
\* ------------------------------------------------------------------------
RankDocs ==
    {d \in [exists : {TRUE}, is_deleted : {FALSE}, rank : 0..MaxRaw,
            sim : (0 - 1)..MaxRaw, embedded : BOOLEAN, agent_id : {"a1"}] :
        ~d.embedded => d.sim = 0}

RankRequests ==
    {r \in [query : {ValidQuery}, limit : {1, MaxPosts}, offset : {0, 1},
            mode : Modes, agent_id : {None}, min_score : {0, 2}] :
        \/ r.limit = MaxPosts /\ r.offset = 0 /\ (r.mode = "hybrid" \/ r.min_score = 2)
        \/ r.limit = 1 /\ r.offset = 1 /\ r.mode = "hybrid" /\ r.min_score = 0}

InitRank ==
    /\ posts \in [PostIds -> RankDocs]
    /\ cache = <<>>
    /\ use_cache = FALSE
    /\ pc = "idle"
    /\ req = None
    /\ text_results = <<>>
    /\ vector_results = <<>>
    /\ combined = <<>>
    /\ resp = None
    /\ agents = <<>>
    /\ prev = <<>>
    /\ now = 0
    /\ ttls = <<>>
    /\ touched = {}
    /\ log = {}
    /\ queue = {}

\* One whole search_posts call of a service constructed with use_cache=False.
RankSearch ==
    \E r \in RankRequests, tie \in {ById} :
        LET out == SearchPostsNoCache(posts, r, tie)
        IN  /\ pc = "idle"
            /\ req' = r
            /\ text_results' = out.text
            /\ vector_results' = out.vector
            /\ combined' = out.combined
            /\ resp' = out.response
            /\ pc' = "done"
            /\ UNCHANGED <<posts, agents, cache, use_cache, prev, now, ttls, touched, log, queue>>

NextRank == RankSearch

SpecRank == InitRank /\ [][NextRank]_vars

\* ------------------------------------------------------------------------
\* SpecPage: the calls of test_pagination over a fixed store, no cache: page
\* one (limit 2, offset 0), page two (limit 2, offset 2), then the first four
\* (limit 4, offset 0), all with the same query, mode and min_score.
\* ------------------------------------------------------------------------
PageIds == 1..PageDocs

PageKinds ==
    {NoPost} \cup
    [exists : {TRUE}, is_deleted : {FALSE}, rank : {1, 2}, sim : {1, 2},
     embedded : {TRUE}, agent_id : {"a1"}]

PageTie == [i \in 1..PageDocs |-> i]

PageRequest(mode, min_score, limit, offset) ==
    [query |-> ValidQuery, limit |-> limit, offset |-> offset, mode |-> mode,
     agent_id |-> None, min_score |-> min_score]

InitPage ==
    /\ posts \in [PageIds -> PageKinds]
    /\ cache = <<>>
    /\ use_cache = FALSE
    /\ pc = "idle"
    /\ req = None
    /\ text_results = <<>>
    /\ vector_results = <<>>
    /\ combined = <<>>
    /\ resp = None
    /\ agents = <<>>
    /\ prev = <<>>
    /\ now = 0
    /\ ttls = <<>>
    /\ touched = {}
    /\ log = {}
    /\ queue = {}

\* One call of the script; prev collects the responses of the earlier calls.
PageCall(r, next) ==
    LET out == SearchPostsNoCache(posts, r, PageTie)
    IN  /\ req' = r
        /\ text_results' = out.text
        /\ vector_results' = out.vector
        /\ combined' = out.combined
        /\ resp' = out.response
        /\ prev' = IF pc = "idle" THEN <<>> ELSE Append(prev, resp)
        /\ UNCHANGED <<now, ttls>>
        /\ pc' = next
        /\ UNCHANGED <<posts, agents, cache, use_cache, touched, log, queue>>

PageOne ==
    /\ pc = "idle"
    /\ \E mode \in Modes, min_score \in {0, 2} :
          PageCall(PageRequest(mode, min_score, 2, 0), "page1")

PageTwo ==
    /\ pc = "page1"
    /\ PageCall(PageRequest(req.mode, req.min_score, 2, 2), "page2")

FirstFour ==
    /\ pc = "page2"
    /\ PageCall(PageRequest(req.mode, req.min_score, 4, 0), "done")

NextPage == PageOne \/ PageTwo \/ FirstFour

SpecPage == InitPage /\ [][NextPage]_vars

\* The ordered post ids of a response.
IdsOf(response) == [i \in 1..Len(response.results) |-> response.results[i].post_id]

\* C5 as stated: in every mode the ids of page one followed by the ids of
\* page two are the ids of the first four.
CE_C5 ==
    pc = "done" => IdsOf(prev[1]) \o IdsOf(prev[2]) = IdsOf(resp)

\* ------------------------------------------------------------------------
\* Claims about ranking (checked under SpecRank)
\* ------------------------------------------------------------------------
Abs(x) == IF x < 0 THEN 0 - x ELSE x

InBatch(batch, p) == \E x \in Range(batch) : x.id = p

RawIn(batch, p) == (CHOOSE x \in Range(batch) : x.id = p).score

\* The normalized contribution of a channel as the claims define it: the raw
\* score over the maximum of the fetched batch, 0 when the entity is absent
\* from the batch or the maximum is 0.
ChannelNorm(batch, p) ==
    IF ~InBatch(batch, p) THEN 0
    ELSE IF MaxScore(batch) = 0 THEN 0
    ELSE Divide(RawIn(batch, p), MaxScore(batch))

\* 0.4 * lexical_norm + 0.6 * semantic_norm over the batches this call fetched.
Fused(p) == 4 * ChannelNorm(text_results, p) + 6 * ChannelNorm(vector_results, p)

\* A hybrid-mode call that computed its response (no cache hit, no error).
HybridComputed ==
    /\ pc = "done"
    /\ req.mode = "hybrid"
    /\ resp.error = None
    /\ ~resp.cache_hit

\* C3 as stated: every score of a hybrid-mode search_posts response equals
\* 0.4 * lexical_norm + 0.6 * semantic_norm exactly.
CE_C3 ==
    HybridComputed =>
        \A i \in DOMAIN resp.results :
            resp.results[i].score * Unit = 1000 * Fused(resp.results[i].post_id)

\* C3 amended: every score of a hybrid-mode search_posts response is
\* 0.4 * lexical_norm + 0.6 * semantic_norm rounded to four decimal places
\* (it differs from the fused value by at most 0.00005), and the entry
\* _combine_results built for it carries the fused value exactly.
Thm_C3 ==
    HybridComputed =>
        /\ \A i \in DOMAIN resp.results :
              2 * Abs(resp.results[i].score * Unit
                        - 1000 * Fused(resp.results[i].post_id)) <= Unit
        /\ \A j \in DOMAIN combined : combined[j].score = Fused(combined[j].post_id)

\* A hybrid response with a result fed by both channels, the lexical one
\* normalized to a proper fraction.
Wit_C3 ==
    /\ HybridComputed
    /\ \E i \in DOMAIN resp.results :
          /\ resp.results[i].match_type = "hybrid"
          /\ ChannelNorm(text_results, resp.results[i].post_id) \notin {0, Unit}
          /\ ChannelNorm(vector_results, resp.results[i].post_id) > 0

\* C4 as stated: in every list _combine_results returns, 'hybrid' has both
\* contributions > 0, 'text' has lexical > 0 and semantic = 0, 'semantic' has
\* semantic > 0 and lexical = 0.
CE_C4 ==
    (pc = "done" /\ req.mode = "hybrid") =>
        \A j \in DOMAIN combined :
            LET t == ChannelNorm(text_results, combined[j].post_id)
                v == ChannelNorm(vector_results, combined[j].post_id)
            IN  /\ combined[j].match_type = "hybrid" => (t > 0 /\ v > 0)
                /\ combined[j].match_type = "text" => (t > 0 /\ v = 0)
                /\ combined[j].match_type = "semantic" => (v > 0 /\ t = 0)

\* C6: in hybrid mode, with an empty lexical candidate list every result
\* _combine_results returns has score 0.6 * semantic_norm and match_type
\* 'semantic'; with an empty semantic candidate list every result has score
\* 0.4 * lexical_norm and match_type 'text'.  The response keeps the
\* match_type.
Thm_C6 ==
    HybridComputed =>
        /\ text_results = <<>> =>
              /\ \A j \in DOMAIN combined :
                    /\ combined[j].score
                          = 6 * ChannelNorm(vector_results, combined[j].post_id)
                    /\ combined[j].match_type = "semantic"
              /\ \A i \in DOMAIN resp.results : resp.results[i].match_type = "semantic"
        /\ vector_results = <<>> =>
              /\ \A j \in DOMAIN combined :
                    /\ combined[j].score
                          = 4 * ChannelNorm(text_results, combined[j].post_id)
                    /\ combined[j].match_type = "text"
              /\ \A i \in DOMAIN resp.results : resp.results[i].match_type = "text"

\* A hybrid response built from the semantic channel alone, with two results.
Wit_C6 ==
    /\ HybridComputed
    /\ text_results = <<>>
    /\ Len(vector_results) >= 2
    /\ Len(resp.results) >= 2
    /\ \E j \in DOMAIN combined : combined[j].score \notin {0, 6 * Unit}

\* ------------------------------------------------------------------------
\* The result cache (SearchCache)
\* ------------------------------------------------------------------------
\* params.get(name, default)
ParamGet(params, name, default) ==
    IF name \in DOMAIN params THEN params[name] ELSE default

\* Mutant: every key gets the prefix of the post searches.
generate_key_unscoped(query, params) ==
    [prefix |-> "search:posts",
     query |-> query,
     limit |-> ParamGet(params, "limit", 20),
     offset |-> ParamGet(params, "offset", 0),
     mode |-> ParamGet(params, "mode", "hybrid"),
     agent_id |-> ParamGet(params, "agent_id", None),
     min_score |-> ParamGet(params, "min_score", 1)]

\* SearchCache._generate_key.  The 16 hex digits of the sha256 are taken to be
\* collision free: the key is its prefix with the hashed data (the raw query
\* and the normalized parameters, which json.dumps(sort_keys=True) orders).
generate_key(query, params) ==
    [prefix |-> IF ParamGet(params, "search_type", None) = "agents"
                THEN "search:agents" ELSE "search:posts",
     query |-> query,
     limit |-> ParamGet(params, "limit", 20),
     offset |-> ParamGet(params, "offset", 0),
     mode |-> ParamGet(params, "mode", "hybrid"),
     agent_id |-> ParamGet(params, "agent_id", None),
     min_score |-> ParamGet(params, "min_score", 1)]

\* Outcomes of one Redis command: it is served, the backend is unreachable
\* (or times out), or the stored value does not decode.
GetFaults == {"none", "unreachable", "undecodable"}
PutFaults == {"none", "unreachable"}

\* Mutant: a failing get is not caught.
get_cached_search_uncaught(cch, query, params, fault) ==
    LET key == generate_key(query, params)
    IN  IF fault = "unreachable" \/ (fault = "undecodable" /\ key \in DOMAIN cch)
        THEN [found |-> FALSE, printed |-> FALSE, raised |-> TRUE, payload |-> None]
        ELSE IF key \in DOMAIN cch
        THEN [found |-> TRUE, printed |-> FALSE, raised |-> FALSE, payload |-> cch[key]]
        ELSE [found |-> FALSE, printed |-> FALSE, raised |-> FALSE, payload |-> None]

\* SearchCache.get_cached_search: the payload, or None on a miss and on any
\* exception of redis.get or json.loads (which is printed).
get_cached_search(cch, query, params, fault) ==
    LET key == generate_key(query, params)
    IN  IF fault = "unreachable" \/ (fault = "undecodable" /\ key \in DOMAIN cch)
        THEN [found |-> FALSE, printed |-> TRUE, raised |-> FALSE, payload |-> None]
        ELSE IF key \in DOMAIN cch
        THEN [found |-> TRUE, printed |-> FALSE, raised |-> FALSE, payload |-> cch[key]]
        ELSE [found |-> FALSE, printed |-> FALSE, raised |-> FALSE, payload |-> None]

\* Mutant: the payload is never stored.
cache_search_dropped(cch, query, params, results, fault) == cch

\* SearchCache.cache_search: setex(key, ttl, json.dumps(results)); an exception
\* is printed and nothing is stored.
cache_search(cch, query, params, results, fault) ==
    LET key == generate_key(query, params)
    IN  IF fault # "none" THEN cch
        ELSE [k \in DOMAIN cch \cup {key} |-> IF k = key THEN results ELSE cch[k]]

\* Mutant: the cached payload is returned without the flag.
HitResponse_unmarked(payload) == payload

\* `cached_results['timing']['cache_hit'] = True`
HitResponse(payload) == [payload EXCEPT !.cache_hit = TRUE]

\* cache_params of search_posts and of search_agents.
PostParams(r) ==
    [limit |-> CapLimit(r.limit), offset |-> r.offset, mode |-> r.mode,
     agent_id |-> r.agent_id, min_score |-> r.min_score]

AgentParams(r) ==
    [limit |-> CapLimit(r.limit), offset |-> r.offset, search_type |-> "agents"]

\* ------------------------------------------------------------------------
\* search_agents
\* ------------------------------------------------------------------------
AgentTie == <<1, 2>>

\* The lexical statement of search_agents: LIMIT :limit, no offset.
AgentTextRows(A, limit) ==
    LET hit == {a \in DOMAIN A : A[a].is_active /\ A[a].rank > 0}
        ids == SeqFilter(AgentTie, hit)
    IN  Slice(SortDesc([i \in 1..Len(ids) |-> [id |-> ids[i], score |-> A[ids[i]].rank]]),
              0, limit)

\* The vector statement of search_agents.
AgentVectorRows(A, limit) ==
    LET hit == {a \in DOMAIN A : A[a].is_active /\ A[a].embedded}
        ids == SeqFilter(AgentTie, hit)
    IN  Slice(SortDesc([i \in 1..Len(ids) |-> [id |-> ids[i], score |-> A[ids[i]].sim]]),
              0, limit)

\* `{row[0]: float(row[1]) for row in rows}`
ScoreDict(rows) ==
    [a \in {x.id : x \in Range(rows)} |-> (CHOOSE x \in Range(rows) : x.id = a).score]

\* `(text_score * 0.4) + (vector_score * 0.6)` of search_agents, over the raw
\* scores: in units of 1/100.
agent_score(text_score, vector_score) == (text_score * 4) + (vector_score * 6)

\* The combine, sort, slice and fetch of search_agents; a score is rounded to
\* four decimals (units of 1/10000).
AgentResults(A, limit, offset) ==
    LET text_scores == ScoreDict(AgentTextRows(A, limit * 2))
        vector_scores == ScoreDict(AgentVectorRows(A, limit * 2))
        all_ids == DOMAIN text_scores \cup DOMAIN vector_scores
        ids == SeqFilter(AgentTie, all_ids)
        sorted == SortDesc([i \in 1..Len(ids) |->
                     [agent_id |-> ids[i],
                      score |-> agent_score(Get(text_scores, ids[i]),
                                            Get(vector_scores, ids[i]))]])
        page == Slice(sorted, offset, offset + limit)
    IN  [i \in 1..Len(page) |->
            [agent_id |-> page[i].agent_id, score |-> page[i].score * 100]]

AgentsResponse(query, results) ==
    [query |-> query, count |-> Len(results), results |-> results,
     cache_hit |-> FALSE, error |-> None]

\* ------------------------------------------------------------------------
\* Spec: the search service with its store, result cache and task queue.
\* One caller issues searches; a search_posts call runs in steps (cache
\* lookup, retrieval, hydration with the cache write) between which the
\* post endpoints, the embedding worker and key expiry may run.
\* ------------------------------------------------------------------------
\* At most MaxCreated posts are created.
MaxCreated == 1

SysIds == 1..MaxCreated

\* The caller's agent; the store starts with one post of another agent, row 0,
\* which the query does not match and whose embedding was never stored.
Caller == "a1"

SeedPost == [exists |-> TRUE, is_deleted |-> FALSE, rank |-> 0, sim |-> 0,
             embedded |-> FALSE, agent_id |-> "a0"]

StoreIds == {0} \cup SysIds

\* Content of a created post as the query ValidQuery sees it.
SysKinds == {[rank |-> 2, sim |-> 1]}

ShortQueries == {<<>>, <<" ", " ">>, <<" ", "a", " ">>}

SysRequests ==
    {r \in [scope : {"posts", "agents"}, via : {"tool", "service"},
            query : {ValidQuery} \cup ShortQueries, limit : {MaxPosts},
            offset : {0}, mode : {"hybrid"}, agent_id : {None}, min_score : {1}] :
        (r.scope = "agents" \/ QueryTooShort(r.query)) => r.mode = "hybrid"}

AgentTables ==
    {<<[is_active |-> TRUE, rank |-> 2, sim |-> 1, embedded |-> TRUE],
       [is_active |-> FALSE, rank |-> 1, sim |-> 2, embedded |-> TRUE]>>}

\* req and resp while the caller has no call and no response.
NoRequest ==
    [scope |-> None, via |-> None, query |-> <<>>, limit |-> 0, offset |-> 0,
     mode |-> None, agent_id |-> None, min_score |-> 0]

NoResponse ==
    [query |-> <<>>, count |-> 0, results |-> <<>>, cache_hit |-> FALSE,
     error |-> None]

Init ==
    /\ posts = [p \in StoreIds |-> IF p = 0 THEN SeedPost ELSE NoPost]
    /\ agents \in AgentTables
    /\ queue = {}
    /\ cache = <<>>
    /\ use_cache \in BOOLEAN
    /\ pc = "idle"
    /\ req = NoRequest
    /\ text_results = <<>>
    /\ vector_results = <<>>
    /\ combined = <<>>
    /\ resp = NoResponse
    /\ log = {}
    /\ prev = <<>>
    /\ now = 0
    /\ ttls = <<>>
    /\ touched = {}

\* The caller starts call r.  pc is "done" (or "failed") from the return of a
\* call until the next step of anything else, so a call entered at "done"
\* follows its predecessor immediately.  touched holds the posts created or
\* deleted since the last return.
Enter(r) ==
    /\ pc \in {"idle", "done", "failed"}
    /\ req' = r
    /\ text_results' = <<>>
    /\ vector_results' = <<>>
    /\ combined' = <<>>
    /\ UNCHANGED <<prev, now, ttls>>

\* The call returns response, having done the backend operations ops.
Return(response, ops) ==
    /\ resp' = response
    /\ log' = ops
    /\ pc' = "done"
    /\ touched' = {}

\* An exception leaves the service: CultureSearchTool turns it into an error
\* dict, a direct caller of SearchService sees it raised.
Fail(r, message, ops) ==
    IF r.via = "tool"
    THEN Return(ErrorResponse(r.query, message), ops)
    ELSE /\ resp' = NoResponse
         /\ log' = ops
         /\ pc' = "failed"
         /\ touched' = {}

\* The short-query returns of CultureSearchTool and of SearchService.
ShortQuery ==
    \E r \in SysRequests :
        /\ Enter(r)
        /\ QueryTooShort(r.query)
        /\ Return(IF r.via = "tool"
                  THEN ErrorResponse(r.query, "Query must be at least 2 characters")
                  ELSE IF r.scope = "posts" THEN EmptyResponse(r.query)
                  ELSE AgentsResponse(r.query, <<>>),
                  {})
        /\ UNCHANGED <<posts, agents, queue, cache, use_cache>>

\* search_posts up to the cache lookup.
SearchPosts ==
    \E r \in SysRequests, fault \in GetFaults :
        /\ Enter(r)
        /\ r.scope = "posts"
        /\ ~QueryTooShort(r.query)
        /\ use_cache \/ fault = "none"
        /\ LET g == get_cached_search(cache, r.query, PostParams(r), fault)
               ops == IF use_cache
                      THEN {"get"} \cup (IF g.printed THEN {"get_error"} ELSE {})
                      ELSE {}
           IN  IF use_cache /\ g.raised THEN Fail(r, "cache failure", ops)
               ELSE IF use_cache /\ g.found THEN Return(HitResponse(g.payload), ops)
               ELSE /\ pc' = "retrieve"
                    /\ resp' = NoResponse
                    /\ log' = ops
                    /\ touched' = {}
        /\ UNCHANGED <<posts, agents, queue, cache, use_cache>>

\* The mode branch of search_posts: the statement(s) of the requested
\* channel(s) run, lexical first; a failing statement or embedder raises.
Retrieve ==
    \E tie \in Orders(SysIds), lexical \in BOOLEAN, vector \in BOOLEAN :
        /\ pc = "retrieve"
        /\ req.mode = "text" => vector
        /\ req.mode = "semantic" => lexical
        /\ ~lexical => vector
        /\ LET ops == log
                      \cup (IF req.mode = "semantic" THEN {}
                            ELSE IF lexical THEN {"lexical"} ELSE {"lexical_error"})
                      \cup (IF req.mode = "text" \/ ~lexical THEN {}
                            ELSE IF vector THEN {"vector"} ELSE {"vector_error"})
               t == TextResultsOf(posts, req, tie)
               v == VectorResultsOf(posts, req, tie)
           IN  IF lexical /\ vector
               THEN /\ text_results' = t
                    /\ vector_results' = v
                    /\ combined' = ResultsOf(req, t, v, tie)
                    /\ pc' = "hydrate"
                    /\ log' = ops
                    /\ UNCHANGED <<resp, touched>>
               ELSE /\ Fail(req, IF lexical THEN "vector failure" ELSE "lexical failure", ops)
                    /\ UNCHANGED <<text_results, vector_results, combined>>
        /\ UNCHANGED <<posts, agents, queue, cache, use_cache, req, prev, now, ttls>>

\* The rest of search_posts: enrichment, the response and the cache write.
Hydrate ==
    \E fault \in PutFaults :
        /\ pc = "hydrate"
        /\ use_cache \/ fault = "none"
        /\ LET response == Response(req.query, enrich_post_results(combined, posts))
           IN  /\ Return(response,
                         log \cup (IF combined = <<>> THEN {} ELSE {"hydrate"})
                             \cup (IF ~use_cache THEN {}
                                   ELSE IF fault = "none" THEN {"put"}
                                   ELSE {"put", "put_error"}))
               /\ cache' = IF use_cache
                           THEN cache_search(cache, req.query, PostParams(req), response, fault)
                           ELSE cache
        /\ UNCHANGED <<posts, agents, queue, use_cache, req, prev, now, ttls,
                       text_results, vector_results, combined>>

\* search_agents, whole: cache lookup, both statements, fusion, the agent
\* fetch and the cache write.  A failing statement or embedder raises.
SearchAgents ==
    \E r \in SysRequests, get \in GetFaults, put \in PutFaults, retrieved \in BOOLEAN :
        /\ Enter(r)
        /\ r.scope = "agents"
        /\ ~QueryTooShort(r.query)
        /\ use_cache \/ (get = "none" /\ put = "none")
        /\ LET g == get_cached_search(cache, r.query, AgentParams(r), get)
               looked == IF use_cache
                         THEN {"get"} \cup (IF g.printed THEN {"get_error"} ELSE {})
                         ELSE {}
               response == AgentsResponse(r.query,
                               AgentResults(agents, CapLimit(r.limit), r.offset))
           IN  IF use_cache /\ g.raised
               THEN Fail(r, "cache failure", looked) /\ UNCHANGED cache
               ELSE IF use_cache /\ g.found
               THEN Return(HitResponse(g.payload), looked) /\ UNCHANGED cache
               ELSE IF ~retrieved
               THEN /\ Fail(r, "retrieval failure", looked \cup {"retrieval_error"})
                    /\ UNCHANGED cache
               ELSE /\ Return(response,
                              looked \cup {"lexical", "vector", "hydrate"}
                                     \cup (IF ~use_cache THEN {}
                                           ELSE IF put = "none" THEN {"put"}
                                           ELSE {"put", "put_error"}))
                    /\ cache' = IF use_cache
                                THEN cache_search(cache, r.query, AgentParams(r), response, put)
                                ELSE cache
        /\ UNCHANGED <<posts, agents, queue, use_cache>>

\* A step of the endpoints, the worker or the cache beside the caller: during
\* a call it leaves the call as it is; after a return it ends the moment in
\* which the returned response is observed, and a created or deleted post is
\* remembered in touched.
Meanwhile(mutated) ==
    IF pc \in {"retrieve", "hydrate"}
    THEN UNCHANGED <<pc, req, text_results, vector_results, combined, resp,
                     log, touched>>
    ELSE /\ pc' = "idle"
         /\ req' = NoRequest
         /\ text_results' = <<>>
         /\ vector_results' = <<>>
         /\ combined' = <<>>
         /\ resp' = NoResponse
         /\ log' = {}
         /\ touched' = touched \cup mutated

\* Post.create gives the new row the next id.
NextId == CHOOSE p \in SysIds : ~posts[p].exists /\ \A q \in 1..(p - 1) : posts[q].exists

\* Post.create and the dispatch of generate_post_embedding, which may fail
\* (the warning is printed and the post stays).
Publish(kind, sent) ==
    /\ \E p \in SysIds : ~posts[p].exists
    /\ posts' = [posts EXCEPT ![NextId] = NewPost(kind.rank, kind.sim, Caller)]
    /\ queue' = IF sent THEN queue \cup {NextId} ELSE queue
    /\ Meanwhile({NextId})
    /\ UNCHANGED <<agents, cache, use_cache, prev, now, ttls>>

\* POST /posts
create_post ==
    \E kind \in SysKinds, sent \in BOOLEAN : Publish(kind, sent)

\* POST /posts/<id>/replies: the parent must be a live post.
create_reply ==
    \E parent \in StoreIds, kind \in SysKinds, sent \in BOOLEAN :
        /\ posts[parent].exists
        /\ ~posts[parent].is_deleted
        /\ Publish(kind, sent)

\* DELETE /posts/<id> by the author: a soft delete.
delete_post ==
    \E p \in StoreIds :
        /\ posts[p].exists
        /\ ~posts[p].is_deleted
        /\ posts[p].agent_id = Caller
        /\ posts' = [posts EXCEPT ![p].is_deleted = TRUE]
        /\ Meanwhile({p})
        /\ UNCHANGED <<agents, queue, cache, use_cache, prev, now, ttls>>

\* The worker runs a queued generate_post_embedding task: the embedding is
\* stored, or the task ends with an error and is not retried.
generate_post_embedding ==
    \E p \in queue, ok \in BOOLEAN :
        /\ queue' = queue \ {p}
        /\ posts' = IF ok /\ posts[p].exists
                    THEN [posts EXCEPT ![p].embedded = TRUE]
                    ELSE posts
        /\ Meanwhile({})
        /\ UNCHANGED <<agents, cache, use_cache, prev, now, ttls>>

\* A key set by setex reaches its ttl.
Expire ==
    \E k \in DOMAIN cache :
        /\ cache' = [x \in DOMAIN cache \ {k} |-> cache[x]]
        /\ Meanwhile({})
        /\ UNCHANGED <<posts, agents, queue, use_cache, prev, now, ttls>>

Next ==
    \/ ShortQuery
    \/ SearchPosts
    \/ Retrieve
    \/ Hydrate
    \/ SearchAgents
    \/ create_post
    \/ create_reply
    \/ delete_post
    \/ generate_post_embedding
    \/ Expire

Spec == Init /\ [][Next]_vars

\* ------------------------------------------------------------------------
\* Properties of Spec
\* ------------------------------------------------------------------------
\* The post ids a response lists.
Listed(response) == {response.results[i].post_id : i \in 1..Len(response.results)}

\* The posts an uncached search over P lists whatever the tie order.
FreshIds(P, r) ==
    {p \in DOMAIN P : \A tie \in Orders(DOMAIN P) :
        p \in Listed(SearchPostsNoCache(P, r, tie).response)}

RetrievalErrors == {"lexical_error", "vector_error", "retrieval_error"}

CacheErrors == {"get_error", "put_error"}

\* C1: a search_posts call entered after posts were created or deleted since
\* the last return, and answered from the cache, lists none of those posts
\* that is deleted and all of them that an uncached search would list.
CE_C1 ==
    [][(/\ pc = "idle"
        /\ pc' = "done"
        /\ req'.scope = "posts"
        /\ resp'.cache_hit)
       => \A p \in touched :
            /\ posts[p].is_deleted => p \notin Listed(resp')
            /\ p \in FreshIds(posts, req') => p \in Listed(resp')]_vars

\* C2 as stated: a valid search_posts call that immediately repeats a
\* successful one returns the same results list and reports cache_hit.
CE_C2 ==
    [][(/\ pc = "done"
        /\ pc' # "idle"
        /\ req' = req
        /\ req.scope = "posts"
        /\ ~QueryTooShort(req.query)
        /\ resp.error = None)
       => /\ pc' = "done"
          /\ resp'.cache_hit
          /\ resp'.results = resp.results]_vars

\* C2, amended: with caching enabled, a valid search_posts call that
\* immediately repeats a successful one whose cache write did not fail, and
\* whose own cache read does not fail, returns the same results list from the
\* cache and reports cache_hit.
Thm_C2 ==
    [][(/\ pc = "done"
        /\ pc' # "idle"
        /\ req' = req
        /\ req.scope = "posts"
        /\ ~QueryTooShort(req.query)
        /\ resp.error = None
        /\ use_cache
        /\ "put_error" \notin log
        /\ "get_error" \notin log')
       => /\ pc' = "done"
          /\ resp'.cache_hit
          /\ resp'.results = resp.results
          /\ log' = {"get"}]_vars

\* A search_posts call answered with the non-empty results list an earlier
\* identical call stored.
Wit_C2 ==
    /\ pc = "done"
    /\ req.scope = "posts"
    /\ resp.cache_hit
    /\ resp.results # <<>>
    /\ log = {"get"}

CacheFailureHarmless ==
    /\ pc = "failed" => log \cap RetrievalErrors # {}
    /\ (pc = "done" /\ resp.error # None)
           => (QueryTooShort(req.query) \/ log \cap RetrievalErrors # {})
    /\ (pc # "idle" /\ log \cap CacheErrors # {} /\ log \cap RetrievalErrors = {}
            /\ "get_error" \in log)
           => pc \in {"retrieve", "hydrate", "done"}
    /\ (pc = "done" /\ log \cap CacheErrors # {} /\ log \cap RetrievalErrors = {})
           => /\ resp.error = None
              /\ ~resp.cache_hit
              /\ {"lexical", "vector"} \subseteq log
              /\ IF req.scope = "posts"
                 THEN \E tie \in Orders(SysIds) :
                        resp = Response(req.query,
                                   enrich_post_results(
                                       ResultsOf(req, text_results, vector_results, tie),
                                       posts))
                 ELSE resp = AgentsResponse(req.query,
                                AgentResults(agents, CapLimit(req.limit), req.offset))

\* C8: a failing cache get is a miss and a failing cache put stores nothing;
\* the call returns what it returns without a cache, and no call fails because
\* of the cache.
Thm_C8 ==
    /\ []CacheFailureHarmless
    /\ [][("put_error" \in log' /\ log' # log) => cache' = cache]_vars

\* A search_posts call whose cache get and cache put both failed has returned
\* results.
Wit_C8 ==
    /\ pc = "done"
    /\ req.scope = "posts"
    /\ {"get_error", "put_error"} \subseteq log
    /\ resp.results # <<>>

\* C9: a hybrid search_posts call in which one retriever failed succeeds.
CE_C9 ==
    (/\ pc # "idle"
     /\ req.scope = "posts"
     /\ req.mode = "hybrid"
     /\ log \cap {"lexical_error", "vector_error"} # {})
        => (pc = "done" /\ resp.error = None)

\* C10: the response that hydration builds lists no deleted post.
CE_C10 ==
    [][(pc = "hydrate" /\ pc' = "done")
       => \A i \in 1..Len(resp'.results) :
            ~posts[resp'.results[i].post_id].is_deleted]_vars

\* ------------------------------------------------------------------------
\* Further properties of SpecRank
\* ------------------------------------------------------------------------
\* C11: a post whose embedding is not stored is in no semantic-mode response
\* and, when a hybrid-mode response lists it, is labelled 'text' (neither
\* 'semantic' nor 'hybrid'); the call returns without error.
Thm_C11 ==
    pc = "done" =>
        /\ resp.error = None
        /\ \A i \in DOMAIN resp.results :
              ~posts[resp.results[i].post_id].embedded =>
                  /\ req.mode # "semantic"
                  /\ resp.results[i].match_type = "text"
        /\ \A j \in DOMAIN vector_results : posts[vector_results[j].id].embedded

\* A hybrid response that lists a post without embedding through the lexical
\* channel, next to a post the semantic channel contributed.
Wit_C11 ==
    /\ pc = "done"
    /\ req.mode = "hybrid"
    /\ \E i \in DOMAIN resp.results : ~posts[resp.results[i].post_id].embedded
    /\ \E i \in DOMAIN resp.results : resp.results[i].match_type = "semantic"

\* ------------------------------------------------------------------------
\* SpecLive: Spec with a fair embedding worker.  A Celery worker that is up
\* takes every queued task, so the worker's step is weakly fair; nothing
\* obliges the caller or the post endpoints to act.
\* ------------------------------------------------------------------------
\* A step of generate_post_embedding as the queue shows it: only the worker
\* takes a task off the queue.
TaskTaken == \E p \in queue : queue' = queue \ {p}

SpecLive == Init /\ [][Next]_vars /\ WF_queue(TaskTaken)

\* C12: every created post eventually has its embedding stored.
CE_C12 ==
    \A p \in SysIds : posts[p].exists ~> posts[p].embedded

\* ------------------------------------------------------------------------
\* SpecInput: a search_posts call of a caching SearchService (or of
\* CultureSearchTool, which passes limit and mode on unchanged) with limits
\* and modes inside and outside the documented ranges, over a small store and
\* an empty cache, and the same call repeated.
\* ------------------------------------------------------------------------
InputDocs ==
    {NoPost,
     [exists |-> TRUE, is_deleted |-> FALSE, rank |-> 2, sim |-> 1,
      embedded |-> TRUE, agent_id |-> "a1"],
     [exists |-> TRUE, is_deleted |-> FALSE, rank |-> 1, sim |-> 0,
      embedded |-> FALSE, agent_id |-> "a1"]}

InputLimits == {0 - 1, 0, 1, 2, 100, 101}

InputRequests ==
    [query : {ValidQuery}, limit : InputLimits, offset : {0, 1},
     mode : Modes \cup {"fuzzy"}, agent_id : {None}, min_score : {0, 2}]

InitInput ==
    /\ posts \in [PostIds -> InputDocs]
    /\ cache = <<>>
    /\ use_cache = TRUE
    /\ pc = "idle"
    /\ req = NoRequest
    /\ text_results = <<>>
    /\ vector_results = <<>>
    /\ combined = <<>>
    /\ resp = NoResponse
    /\ agents = <<>>
    /\ prev = <<>>
    /\ now = 0
    /\ ttls = <<>>
    /\ touched = {}
    /\ log = {}
    /\ queue = {}

\* The channels the mode chain of search_posts queries: `else` is hybrid.
ChannelsOf(mode) ==
    IF mode = "text" THEN {"lexical"}
    ELSE IF mode = "semantic" THEN {"vector"}
    ELSE {"lexical", "vector"}

\* The whole call.  On a miss PostgreSQL rejects a negative LIMIT, and the
\* exception leaves search_posts before anything is cached; the repeated
\* call finds the payload the first one stored.
InputSearch ==
    \E r \in InputRequests :
        LET out == SearchPostsNoCache(posts, r, ById)
            g == get_cached_search(cache, r.query, PostParams(r), "none")
        IN  /\ pc = "idle" \/ (pc = "done" /\ r = req)
            /\ req' = r
            /\ IF g.found
               THEN /\ pc' = "done"
                    /\ log' = {"get"}
                    /\ resp' = HitResponse(g.payload)
                    /\ UNCHANGED <<text_results, vector_results, combined, cache>>
               ELSE IF CapLimit(r.limit) < 0
               THEN /\ pc' = "failed"
                    /\ log' = {"get", "retrieval_error"}
                    /\ resp' = ErrorResponse(r.query, "LIMIT must not be negative")
                    /\ UNCHANGED <<text_results, vector_results, combined, cache>>
               ELSE /\ pc' = "done"
                    /\ log' = {"get", "put"} \cup ChannelsOf(r.mode)
                    /\ text_results' = out.text
                    /\ vector_results' = out.vector
                    /\ combined' = out.combined
                    /\ resp' = out.response
                    /\ cache' = cache_search(cache, r.query, PostParams(r),
                                             out.response, "none")
            /\ UNCHANGED <<posts, agents, use_cache, prev, now, ttls, touched, queue>>

NextInput == InputSearch

SpecInput == InitInput /\ [][NextInput]_vars

\* C13: the limit a search_posts call used, for the rows it returned and in
\* its cache key, is within [1, 100], whatever limit was passed.
CE_C13 ==
    pc # "idle" =>
        /\ pc = "done"
        /\ \A k \in DOMAIN cache : k.limit >= 1 /\ k.limit <= 100
        /\ (req.mode = "text" /\ req.min_score = 0
                /\ TextRows(posts, None, ById) # <<>>) => resp.results # <<>>

\* C14: a search_posts call with a mode outside 'text', 'semantic', 'hybrid'
\* (and a limit within range) returns an error result, queries no channel
\* and caches nothing.
CE_C14 ==
    (pc # "idle" /\ req.mode \notin Modes /\ req.limit \in 1..100) =>
        /\ pc = "done"
        /\ resp.error # None
        /\ log \cap {"lexical", "vector", "put"} = {}
        /\ cache = <<>>

\* ------------------------------------------------------------------------
\* Claims about thresholds and score ranges (checked under SpecRank)
\* ------------------------------------------------------------------------
\* The relevance of a stored post for the mode of the current request, in
\* units of 1/(10*Unit): the raw channel score in the single-channel modes,
\* the fused score in hybrid mode.
Relevance(p) ==
    IF req.mode = "text" THEN posts[p].rank * Unit
    ELSE IF req.mode = "semantic" THEN posts[p].sim * Unit
    ELSE Fused(p)

Searchable(p) ==
    /\ posts[p].exists /\ ~posts[p].is_deleted
    /\ req.mode = "semantic" => posts[p].embedded

AgentIds == 1..2

\* An agent row as the two statements of search_agents see it: rank is the
\* ts_rank of name and bio for the query, sim the similarity of embedding_bio.
AgentKinds ==
    {[is_active |-> FALSE, rank |-> 1, sim |-> 2, embedded |-> TRUE]} \cup
    [is_active : {TRUE}, rank : 0..MaxRaw, sim : {1, 2}, embedded : {TRUE}]

AgentRequest ==
    [scope |-> "agents", via |-> "service", query |-> ValidQuery,
     limit |-> MaxPosts, offset |-> 0, mode |-> "hybrid", agent_id |-> None,
     min_score |-> 1]

InitAgents ==
    /\ agents \in [AgentIds -> AgentKinds]
    /\ cache = <<>>
    /\ use_cache = TRUE
    /\ pc = "idle"
    /\ req = NoRequest
    /\ text_results = <<>>
    /\ vector_results = <<>>
    /\ combined = <<>>
    /\ resp = NoResponse
    /\ posts = <<>>
    /\ prev = <<>>
    /\ now = 0
    /\ ttls = <<>>
    /\ touched = {}
    /\ log = {}
    /\ queue = {}

\* One whole search_agents call: the cached payload on a hit; on a miss the
\* two statements, the fusion, the fetch and the cache write.
AgentSearch ==
    LET r == AgentRequest
        g == get_cached_search(cache, r.query, AgentParams(r), "none")
        t == AgentTextRows(agents, CapLimit(r.limit) * 2)
        v == AgentVectorRows(agents, CapLimit(r.limit) * 2)
        response == AgentsResponse(r.query,
                        AgentResults(agents, CapLimit(r.limit), r.offset))
    IN  /\ req' = r
        /\ pc' = "done"
        /\ IF g.found
           THEN /\ resp' = HitResponse(g.payload)
                /\ text_results' = <<>>
                /\ vector_results' = <<>>
                /\ log' = {"get"}
                /\ UNCHANGED cache
           ELSE /\ resp' = response
                /\ text_results' = t
                /\ vector_results' = v
                /\ log' = {"get", "lexical", "vector", "put"}
                /\ cache' = cache_search(cache, r.query, AgentParams(r), response, "none")
        /\ UNCHANGED <<posts, agents, use_cache, combined, prev, now, ttls, touched, queue>>

\* PATCH /me by an authenticated agent: name or bio is replaced and committed,
\* which changes the ts_rank of the row; embedding_bio and the cache are not
\* touched.
update_me ==
    \E a \in AgentIds, rank \in 0..MaxRaw :
        /\ agents[a].is_active
        /\ rank # agents[a].rank
        /\ agents' = [agents EXCEPT ![a].rank = rank]
        /\ pc' = "updated"
        /\ req' = NoRequest
        /\ resp' = NoResponse
        /\ text_results' = <<>>
        /\ vector_results' = <<>>
        /\ log' = {}
        /\ UNCHANGED <<posts, cache, use_cache, combined, prev, now, ttls, touched, queue>>

NextAgents == AgentSearch \/ update_me

SpecAgents == InitAgents /\ [][NextAgents]_vars

\* The ordered ids and scores _combine_results produces for the candidate
\* lists the call retrieved (no threshold), rounded as a response rounds.
FusedAgents ==
    LET c == combine_results(text_results, vector_results, CapLimit(req.limit),
                             req.offset, 0, AgentTie)
    IN  [i \in 1..Len(c) |-> [agent_id |-> c[i].post_id, score |-> Round4(c[i].score)]]

\* C16: the ordered ids and scores of a computed search_agents response equal
\* those _combine_results produces for the same candidate lists.
CE_C16 ==
    (pc = "done" /\ ~resp.cache_hit) => resp.results = FusedAgents

\* C17: a search_agents call that follows a committed profile update is not
\* answered from the cache, and the update leaves no cached agent search.
CE_C17 ==
    [][/\ agents' # agents => cache' = <<>>
       /\ pc = "updated" => ~resp'.cache_hit]_vars

\* ------------------------------------------------------------------------
\* Further claims about the cache (checked under Spec)
\* ------------------------------------------------------------------------
\* The cache key of the caller's request.
KeyOf(r) ==
    generate_key(r.query, IF r.scope = "posts" THEN PostParams(r) ELSE AgentParams(r))

\* C18: a search response carries cache_hit = true if and only if it was
\* served from a cache record (the lookup was the call's only backend
\* operation and the response is the stored payload plus the flag); a
\* response computed on a miss never carries it, and no stored payload does
\* (cache_hit FALSE stands for a timing dict without the key).
Thm_C18 ==
    /\ \A k \in DOMAIN cache : ~cache[k].cache_hit
    /\ pc = "done" =>
          /\ resp.cache_hit <=> log = {"get"}
          /\ resp.cache_hit =>
                /\ KeyOf(req) \in DOMAIN cache
                /\ resp = HitResponse(cache[KeyOf(req)])
          /\ log \cap {"lexical", "vector", "hydrate", "put"} # {} => ~resp.cache_hit

\* A call answered from the cache with a non-empty result list.
Wit_C18 ==
    /\ pc = "done" /\ resp.cache_hit /\ resp.count > 0
    /\ log = {"get"}

\* ------------------------------------------------------------------------
\* Ordering of a response (checked under SpecInput)
\* ------------------------------------------------------------------------
\* C19: in every search_posts response, in every mode, computed or served
\* from the cache, the scores are non-increasing along the result list, and
\* the hydrated results keep the order of the ranked list.
Thm_C19 ==
    pc = "done" =>
        /\ \A i, j \in DOMAIN resp.results :
              i < j => resp.results[i].score >= resp.results[j].score
        /\ IdsOf(resp) = [i \in 1..Len(combined) |-> combined[i].post_id]

\* A response served from the cache with two results of different scores.
Wit_C19 ==
    /\ pc = "done" /\ resp.cache_hit
    /\ Len(resp.results) = 2
    /\ resp.results[1].score > resp.results[2].score

\* ------------------------------------------------------------------------
\* Range of a hybrid score (checked under SpecRank)
\* ------------------------------------------------------------------------
\* C20: every score of a hybrid-mode search_posts response lies in [0, 1] and
\* is the weighted sum (rounded to four decimals) of two channel scores that
\* are each normalized into [0, 1], whatever raw scores the store holds,
\* negative similarities included: the hybrid branch fetches the vector rows
\* with a threshold of 0, so a negative similarity never reaches the combiner.
Thm_C20 ==
    HybridComputed =>
        /\ \A j \in DOMAIN vector_results : vector_results[j].score >= 0
        /\ \A i \in DOMAIN resp.results :
              LET p == resp.results[i].post_id
              IN  /\ resp.results[i].score \in 0..10000
                  /\ ChannelNorm(text_results, p) \in 0..Unit
                  /\ ChannelNorm(vector_results, p) \in 0..Unit
                  /\ 2 * Abs(resp.results[i].score * Unit - 1000 * Fused(p)) <= Unit

\* A hybrid response over a store that holds an embedded post of negative
\* similarity, with a score above every raw score of the store.
Wit_C20 ==
    /\ HybridComputed
    /\ \E p \in PostIds : posts[p].embedded /\ posts[p].sim < 0
    /\ \E i \in DOMAIN resp.results : resp.results[i].score > MaxRaw * 1000

\* ------------------------------------------------------------------------
\* Overfetch and pagination in hybrid mode (checked under SpecRank)
\* ------------------------------------------------------------------------
\* The first n rows of a statement's full ordered result.
FirstRows(rows, n) == Slice(rows, 0, n)

\* The whole fused list of the batches this call fetched: every candidate of
\* the union scored, thresholded and sorted, not yet paginated.
FullFused ==
    combine_results(text_results, vector_results,
                    Len(text_results) + Len(vector_results), 0, req.min_score, ById)

Lookups ==
    [scope : {"posts"}, query : {ValidQuery, <<"a", "b", " ">>}, limit : {1, 20},
     offset : {0}, mode : {"text", "hybrid"}, agent_id : {None, "a1"},
     min_score : {1}, reversed : BOOLEAN]
    \cup
    [scope : {"agents"}, query : {ValidQuery, <<"a", "b", " ">>}, limit : {1, 20},
     offset : {0}, mode : {None}, agent_id : {None}, min_score : {1},
     reversed : BOOLEAN]

Reverse(s) == [i \in 1..Len(s) |-> s[Len(s) + 1 - i]]

\* The items of cache_params in insertion order.
ParamItems(l) ==
    LET items == IF l.scope = "posts"
                 THEN <<<<"limit", l.limit>>, <<"offset", l.offset>>,
                        <<"mode", l.mode>>, <<"agent_id", l.agent_id>>,
                        <<"min_score", l.min_score>>>>
                 ELSE <<<<"limit", l.limit>>, <<"offset", l.offset>>,
                        <<"search_type", "agents">>>>
    IN  IF l.reversed THEN Reverse(items) ELSE items

\* The dict built from a list of items.
Dict(items) ==
    [name \in {items[i][1] : i \in DOMAIN items} |->
        items[CHOOSE i \in DOMAIN items : items[i][1] = name][2]]

InitKey ==
    /\ req \in [first : Lookups, second : Lookups]
    /\ cache = <<>>
    /\ use_cache = TRUE
    /\ pc = "idle"
    /\ text_results = <<>>
    /\ vector_results = <<>>
    /\ combined = <<>>
    /\ resp = NoResponse
    /\ posts = <<>>
    /\ agents = <<>>
    /\ prev = <<>>
    /\ now = 0
    /\ ttls = <<>>
    /\ touched = {}
    /\ log = {}
    /\ queue = {}

\* The keys of the two lookups.
GenerateKeys ==
    /\ pc = "idle"
    /\ resp' = [first |-> generate_key(req.first.query, Dict(ParamItems(req.first))),
                second |-> generate_key(req.second.query, Dict(ParamItems(req.second)))]
    /\ pc' = "done"
    /\ UNCHANGED <<posts, agents, queue, cache, use_cache, req, text_results,
                   vector_results, combined, log, prev, now, ttls, touched>>

NextKey == GenerateKeys

SpecKey == InitKey /\ [][NextKey]_vars

\* Two lookups agree on the raw query text, limit, offset, mode, agent_id,
\* min_score and scope.
Agree(l1, l2) ==
    /\ l1.query = l2.query /\ l1.limit = l2.limit /\ l1.offset = l2.offset
    /\ l1.mode = l2.mode /\ l1.agent_id = l2.agent_id
    /\ l1.min_score = l2.min_score /\ l1.scope = l2.scope

ttl == 2
\* The clock stops here.
MaxNow == 4

CacheLookups ==
    {[scope |-> "posts", query |-> ValidQuery, limit |-> 20, offset |-> 0,
      mode |-> "hybrid", agent_id |-> None, min_score |-> 1, reversed |-> FALSE],
     [scope |-> "posts", query |-> ValidQuery, limit |-> 1, offset |-> 0,
      mode |-> "text", agent_id |-> None, min_score |-> 1, reversed |-> FALSE],
     [scope |-> "agents", query |-> ValidQuery, limit |-> 20, offset |-> 0,
      mode |-> None, agent_id |-> None, min_score |-> 1, reversed |-> FALSE]}

LookupKey(l) == generate_key(l.query, Dict(ParamItems(l)))

\* The response search_posts / search_agents caches for the lookup.
PayloadOf(l) ==
    IF l.scope = "posts" THEN EmptyResponse(l.query) ELSE AgentsResponse(l.query, <<>>)

\* Mutant: redis.set, which stores the value without an expiry (ttl -1).
set_ttls(tt, key, t, fault) ==
    IF fault # "none" THEN tt
    ELSE [k \in DOMAIN tt \cup {key} |->
            IF k = key THEN [stored_at |-> t, ttl |-> 0 - 1] ELSE tt[k]]

\* The expiry redis.setex(key, self.ttl, value) gives the key at time t.
setex_ttls(tt, key, t, fault) ==
    IF fault # "none" THEN tt
    ELSE [k \in DOMAIN tt \cup {key} |->
            IF k = key THEN [stored_at |-> t, ttl |-> ttl] ELSE tt[k]]

\* Redis keeps a key while it has no expiry or its ttl has not elapsed.
Live(tt, k, t) == tt[k].ttl < 0 \/ t < tt[k].stored_at + tt[k].ttl

Restrict(f, keys) == [k \in keys |-> f[k]]

\* The keys scan_iter("search:posts:*") / scan_iter("search:agents:*") yields.
Matching(cch, pattern) == {k \in DOMAIN cch : k.prefix = pattern}

\* Mutant: flushdb instead of the scan.
invalidate_flushdb(cch, pattern, gone) == <<>>

\* The loop of invalidate_post and invalidate_agent: the keys in gone are
\* deleted (all matching keys unless a Redis error ends the loop).
invalidate(cch, pattern, gone) == Restrict(cch, DOMAIN cch \ gone)

InitCache ==
    /\ cache = <<>>
    /\ ttls = <<>>
    /\ now = 0
    /\ use_cache = TRUE
    /\ pc = "idle"
    /\ req = NoRequest
    /\ text_results = <<>>
    /\ vector_results = <<>>
    /\ combined = <<>>
    /\ resp = NoResponse
    /\ posts = <<>>
    /\ agents = <<>>
    /\ prev = <<>>
    /\ touched = {}
    /\ log = {}
    /\ queue = {}

CacheFrame ==
    UNCHANGED <<posts, agents, queue, use_cache, text_results, vector_results,
                combined, touched>>

\* SearchCache.cache_search for one of the lookups.
CachePut ==
    \E l \in CacheLookups, fault \in PutFaults :
        /\ cache' = cache_search(cache, l.query, Dict(ParamItems(l)), PayloadOf(l), fault)
        /\ ttls' = setex_ttls(ttls, LookupKey(l), now, fault)
        /\ pc' = "idle"
        /\ req' = NoRequest
        /\ resp' = NoResponse
        /\ prev' = <<>>
        /\ log' = IF fault = "none" THEN {"put"} ELSE {"put", "put_error"}
        /\ UNCHANGED now
        /\ CacheFrame

\* SearchCache.get_cached_search for one of the lookups, and the cache-hit
\* return of the service.
CacheGet ==
    \E l \in CacheLookups, fault \in GetFaults :
        LET g == get_cached_search(cache, l.query, Dict(ParamItems(l)), fault)
        IN  /\ req' = [NoRequest EXCEPT !.scope = l.scope, !.query = l.query,
                                        !.limit = l.limit, !.offset = l.offset,
                                        !.mode = l.mode, !.agent_id = l.agent_id,
                                        !.min_score = l.min_score]
            /\ resp' = IF g.found THEN HitResponse(g.payload) ELSE NoResponse
            /\ pc' = IF g.found THEN "done" ELSE "miss"
            /\ prev' = <<>>
            /\ log' = IF g.printed THEN {"get", "get_error"} ELSE {"get"}
            /\ UNCHANGED <<cache, ttls, now>>
            /\ CacheFrame

\* One run of the scan-and-delete loop; prev keeps the db as it was before.
Invalidation(name, pattern, gone) ==
    /\ cache' = invalidate(cache, pattern, gone)
    /\ ttls' = Restrict(ttls, DOMAIN ttls \ gone)
    /\ prev' = <<cache>>
    /\ log' = IF gone = Matching(cache, pattern)
              THEN {name} ELSE {name, "invalidation_error"}
    /\ pc' = "idle"
    /\ req' = NoRequest
    /\ resp' = NoResponse
    /\ UNCHANGED now
    /\ CacheFrame

\* SearchCache.invalidate_post
invalidate_post ==
    \E gone \in SUBSET Matching(cache, "search:posts") :
        Invalidation("invalidate_post", "search:posts", gone)

\* SearchCache.invalidate_agent
invalidate_agent ==
    \E gone \in SUBSET Matching(cache, "search:agents") :
        Invalidation("invalidate_agent", "search:agents", gone)

\* Time passes on the Redis server, which drops the keys whose ttl elapsed.
Tick ==
    /\ now < MaxNow
    /\ now' = now + 1
    /\ LET live == {k \in DOMAIN cache : Live(ttls, k, now + 1)}
       IN  /\ cache' = Restrict(cache, live)
           /\ ttls' = Restrict(ttls, live)
    /\ pc' = "idle"
    /\ req' = NoRequest
    /\ resp' = NoResponse
    /\ prev' = <<>>
    /\ log' = {"tick"}
    /\ CacheFrame

NextCache == CachePut \/ CacheGet \/ invalidate_post \/ invalidate_agent \/ Tick

SpecCache == InitCache /\ [][NextCache]_vars

\* C22: invalidate_post run to completion leaves no record under
\* search:posts and leaves every record under search:agents as it was;
\* invalidate_agent run to completion does the converse.
Thm_C22 ==
    /\ log = {"invalidate_post"} =>
          /\ Matching(cache, "search:posts") = {}
          /\ cache = Restrict(prev[1], Matching(prev[1], "search:agents"))
    /\ log = {"invalidate_agent"} =>
          /\ Matching(cache, "search:agents") = {}
          /\ cache = Restrict(prev[1], Matching(prev[1], "search:posts"))

\* invalidate_post has just removed two post-search records and kept the
\* agent-search record.
Wit_C22 ==
    /\ log = {"invalidate_post"}
    /\ Cardinality(Matching(prev[1], "search:posts")) = 2
    /\ Cardinality(DOMAIN cache) = 1

\* C24: every cache record carries the ttl of the cache and is gone once
\* that time has elapsed since its put, so a response served from the cache
\* was put less than one ttl ago, whether or not any invalidation succeeded.
Thm_C24 ==
    /\ DOMAIN ttls = DOMAIN cache
    /\ \A k \in DOMAIN cache :
          /\ ttls[k].ttl = ttl
          /\ now - ttls[k].stored_at < ttl
    /\ (pc = "done" /\ resp.cache_hit) =>
          /\ KeyOf(req) \in DOMAIN cache
          /\ now - ttls[KeyOf(req)].stored_at < ttl

\* A response served from the cache in the last tick before its record
\* expires, the record having been put after the clock had run for a ttl.
Wit_C24 ==
    /\ pc = "done" /\ resp.cache_hit
    /\ now - ttls[KeyOf(req)].stored_at = ttl - 1
    /\ now >= ttl

\* ------------------------------------------------------------------------
\* SpecRace: two search_posts calls with the same parameters run against one
\* caching service without any lock, each in three steps (cache lookup,
\* retrieval with enrichment, cache write), beside one delete_post and one
\* run of invalidate_post.  Every variable of a call is indexed by the call.
\* ------------------------------------------------------------------------
Procs == {1, 2}

RaceKinds ==
    {[exists |-> TRUE, is_deleted |-> FALSE, rank |-> 2, sim |-> 1,
      embedded |-> TRUE, agent_id |-> "a1"],
     [exists |-> TRUE, is_deleted |-> FALSE, rank |-> 1, sim |-> 1,
      embedded |-> TRUE, agent_id |-> "a1"]}

RaceRequests ==
    [scope : {"posts"}, via : {"service"}, query : {ValidQuery}, limit : {MaxPosts},
     offset : {0}, mode : {"text", "hybrid"}, agent_id : {None}, min_score : {0}]

InitRace ==
    /\ posts \in [PostIds -> RaceKinds]
    /\ req \in RaceRequests
    /\ cache = <<>>
    /\ use_cache = TRUE
    /\ pc = [p \in Procs |-> "idle"]
    /\ text_results = [p \in Procs |-> <<>>]
    /\ vector_results = [p \in Procs |-> <<>>]
    /\ combined = [p \in Procs |-> <<>>]
    /\ resp = [p \in Procs |-> NoResponse]
    /\ prev = [p \in Procs |-> {}]
    /\ agents = <<>>
    /\ now = 0
    /\ ttls = <<>>
    /\ touched = {}
    /\ log = {}
    /\ queue = {}

\* The cache lookup of call p; prev[p] keeps what had completed when the
\* call began.
RaceLookup(p) ==
    LET g == get_cached_search(cache, req.query, PostParams(req), "none")
    IN  /\ pc[p] = "idle"
        /\ prev' = [prev EXCEPT ![p] = log]
        /\ IF g.found
           THEN /\ resp' = [resp EXCEPT ![p] = HitResponse(g.payload)]
                /\ pc' = [pc EXCEPT ![p] = "done"]
           ELSE /\ pc' = [pc EXCEPT ![p] = "retrieve"]
                /\ UNCHANGED resp
        /\ UNCHANGED <<posts, agents, queue, cache, use_cache, req, text_results,
                       vector_results, combined, log, now, ttls, touched>>

\* The statements, the ranking and the enrichment of call p.  The statements
\* order rows of equal score as the store happens to return them.
RaceRetrieve(p) ==
    \E tie \in Orders(PostIds) :
        LET t == TextResultsOf(posts, req, tie)
            v == VectorResultsOf(posts, req, tie)
            c == ResultsOf(req, t, v, ById)
        IN  /\ pc[p] = "retrieve"
            /\ text_results' = [text_results EXCEPT ![p] = t]
            /\ vector_results' = [vector_results EXCEPT ![p] = v]
            /\ combined' = [combined EXCEPT ![p] = c]
            /\ resp' = [resp EXCEPT ![p] = Response(req.query, enrich_post_results(c, posts))]
            /\ pc' = [pc EXCEPT ![p] = "put"]
            /\ UNCHANGED <<posts, agents, queue, cache, use_cache, req, log, prev,
                           now, ttls, touched>>

\* Mutant: the write stores the payload before its results are in.
RacePut_partial(p) ==
    /\ pc[p] = "put"
    /\ cache' = cache_search(cache, req.query, PostParams(req),
                             [resp[p] EXCEPT !.results = <<>>], "none")
    /\ pc' = [pc EXCEPT ![p] = "done"]
    /\ UNCHANGED <<posts, agents, queue, use_cache, req, text_results,
                   vector_results, combined, resp, log, prev, now, ttls, touched>>

\* The cache write of call p and its return.
RacePut(p) ==
    /\ pc[p] = "put"
    /\ cache' = cache_search(cache, req.query, PostParams(req), resp[p], "none")
    /\ pc' = [pc EXCEPT ![p] = "done"]
    /\ UNCHANGED <<posts, agents, queue, use_cache, req, text_results,
                   vector_results, combined, resp, log, prev, now, ttls, touched>>

\* DELETE /posts/<id> by the author, once.
RaceDelete ==
    \E d \in PostIds :
        /\ touched = {}
        /\ posts' = [posts EXCEPT ![d].is_deleted = TRUE]
        /\ touched' = {d}
        /\ UNCHANGED <<agents, queue, cache, use_cache, pc, req, text_results,
                       vector_results, combined, resp, log, prev, now, ttls>>

\* SearchCache.invalidate_post run to completion after the delete.
RaceInvalidate ==
    /\ touched # {}
    /\ "invalidate_post" \notin log
    /\ cache' = invalidate(cache, "search:posts", Matching(cache, "search:posts"))
    /\ log' = log \cup {"invalidate_post"}
    /\ UNCHANGED <<posts, agents, queue, use_cache, pc, req, text_results,
                   vector_results, combined, resp, prev, now, ttls, touched>>

NextRace ==
    \/ \E p \in Procs : RaceLookup(p)
    \/ \E p \in Procs : RaceRetrieve(p)
    \/ \E p \in Procs : RacePut(p)
    \/ RaceDelete
    \/ RaceInvalidate

SpecRace == InitRace /\ [][NextRace]_vars

\* The calls that computed their response (cache miss, past retrieval).
Computed == {p \in Procs : pc[p] \in {"put", "done"} /\ ~resp[p].cache_hit}

\* What C25 promises of racing calls over unchanged content: the calls that
\* have a response have the same ordered results, every record of the cache
\* is the complete payload one of the calls computed, and when all calls are
\* back the cache holds exactly one record.
RaceAgreement ==
    /\ \A p, q \in Procs :
          (pc[p] \in {"put", "done"} /\ pc[q] \in {"put", "done"})
              => resp[p].results = resp[q].results
    /\ \A k \in DOMAIN cache :
          /\ k = generate_key(req.query, PostParams(req))
          /\ \E p \in Computed : pc[p] = "done" /\ cache[k] = resp[p]
    /\ (\A p \in Procs : pc[p] = "done") => Cardinality(DOMAIN cache) = 1

\* C25 as stated: identical calls racing on a miss over unchanged content
\* return the same ordered results and leave one complete payload.
CE_C25 == touched = {} => RaceAgreement

\* Every call that ran its statements got the same rows in the same order.
SameRows ==
    \A p, q \in Computed :
        text_results[p] = text_results[q] /\ vector_results[p] = vector_results[q]

\* C25 amended: the same, provided the store returned the rows of equal score
\* in the same order to each of the racing calls.
Thm_C25 == (touched = {} /\ SameRows) => RaceAgreement

\* Both calls missed, both computed and both wrote, over two posts of equal
\* score.
Wit_C25 ==
    /\ touched = {} /\ SameRows
    /\ Computed = Procs
    /\ \A p \in Procs : pc[p] = "done" /\ Len(resp[p].results) = 2
    /\ resp[1].results[1].score = resp[1].results[2].score

\* C28: a call that began after invalidate_post completed is not served a
\* response that lists the post deleted before the invalidation.
CE_C28 ==
    \A p \in Procs :
        (pc[p] = "done" /\ "invalidate_post" \in prev[p]) =>
            \A i \in DOMAIN resp[p].results : resp[p].results[i].post_id \notin touched

\* ------------------------------------------------------------------------
\* SpecHighlight: SearchService._generate_highlights applied to one post and
\* one query.  A string is a sequence of characters; a highlights dict is the
\* set of its <<key, value>> items.
\* ------------------------------------------------------------------------
\* Longest content and longest query.
MaxText == 3

Strings(alphabet, n) == UNION {[1..k -> alphabet] : k \in 0..n}

HlContents == Strings({"a", "A", "b"}, MaxText)

HlQueries == Strings({"a", "A", "b", " "}, MaxText) \ {<<>>}

HlSuperPosts == {<<>>, <<"A">>, <<"b", "a">>}

\* str.lower()
LowerChar(c) == IF c = "A" THEN "a" ELSE IF c = "B" THEN "b" ELSE c

Lower(str) == [i \in 1..Len(str) |-> LowerChar(str[i])]

\* str.split(): the maximal runs of non-blank characters, in order.
RECURSIVE Split(_)
Split(str) ==
    IF str = <<>> THEN <<>>
    ELSE IF Head(str) = " " THEN Split(Tail(str))
    ELSE LET n == CHOOSE k \in 1..Len(str) :
                      /\ \A i \in 1..k : str[i] # " "
                      /\ k = Len(str) \/ str[k + 1] = " "
         IN  <<SubSeq(str, 1, n)>> \o Split(SubSeq(str, n + 1, Len(str)))

\* The positions at which term occurs in str.
Occurrences(term, str) ==
    {i \in 1..(Len(str) - Len(term) + 1) : SubSeq(str, i, i + Len(term) - 1) = term}

\* `term in content_lower`
Contains(str, term) == Occurrences(term, str) # {}

\* f'<em>{term}</em>'
Emphasis(term) == <<"<", "e", "m", ">">> \o term \o <<"<", "/", "e", "m", ">">>

\* re.compile(re.escape(term), re.IGNORECASE).sub(f'<em>{term}</em>', str):
\* the matches are found left to right without overlap, and each is replaced
\* by the lower-cased term between the markers.
RECURSIVE Sub(_, _)
Sub(term, str) ==
    IF Len(str) < Len(term) THEN str
    ELSE IF Lower(SubSeq(str, 1, Len(term))) = Lower(term)
    THEN Emphasis(term) \o Sub(term, SubSeq(str, Len(term) + 1, Len(str)))
    ELSE <<Head(str)>> \o Sub(term, Tail(str))

\* The loop over the terms for post.content.
RECURSIVE HighlightContent(_, _, _)
HighlightContent(terms, content_lower, content_highlighted) ==
    IF terms = <<>> THEN content_highlighted
    ELSE HighlightContent(Tail(terms), content_lower,
                          IF Contains(content_lower, Head(terms))
                          THEN Sub(Head(terms), content_highlighted)
                          ELSE content_highlighted)

\* The window of the super_post snippet around the first match.
SnippetBefore == 50
SnippetAfter == 100

Ellipsis == <<".", ".", ".">>

\* The loop over the terms for post.super_post: the snippet of the first term
\* that occurs, or no item.
RECURSIVE HighlightSuperPost(_, _)
HighlightSuperPost(terms, super_post) ==
    IF terms = <<>> THEN {}
    ELSE IF Contains(Lower(super_post), Head(terms))
    THEN LET idx == (CHOOSE i \in Occurrences(Head(terms), Lower(super_post)) :
                        \A j \in Occurrences(Head(terms), Lower(super_post)) : i <= j) - 1
             start == IF idx - SnippetBefore > 0 THEN idx - SnippetBefore ELSE 0
             end == IF idx + SnippetAfter < Len(super_post)
                    THEN idx + SnippetAfter ELSE Len(super_post)
             snippet == SubSeq(super_post, start + 1, end)
         IN  {<<"super_post",
                (IF start > 0 THEN Ellipsis ELSE <<>>)
                   \o Sub(Head(terms), snippet)
                   \o (IF end < Len(super_post) THEN Ellipsis ELSE <<>>)>>}
    ELSE HighlightSuperPost(Tail(terms), super_post)

\* SearchService._generate_highlights
generate_highlights(post, query) ==
    LET terms == Split(Lower(query))
    IN  (IF post.content # <<>>
         THEN {<<"content", HighlightContent(terms, Lower(post.content), post.content)>>}
         ELSE {})
        \cup
        (IF post.super_post # <<>>
         THEN HighlightSuperPost(terms, post.super_post)
         ELSE {})

InitHighlight ==
    /\ req \in [query : HlQueries, content : HlContents, super_post : HlSuperPosts]
    /\ cache = <<>>
    /\ use_cache = FALSE
    /\ pc = "idle"
    /\ text_results = <<>>
    /\ vector_results = <<>>
    /\ combined = <<>>
    /\ resp = NoResponse
    /\ posts = <<>>
    /\ agents = <<>>
    /\ prev = <<>>
    /\ now = 0
    /\ ttls = <<>>
    /\ touched = {}
    /\ log = {}
    /\ queue = {}

\* One call of _generate_highlights; resp holds the dict it returns.
Highlight ==
    /\ pc = "idle"
    /\ resp' = generate_highlights([content |-> req.content,
                                    super_post |-> req.super_post], req.query)
    /\ pc' = "done"
    /\ UNCHANGED <<posts, agents, queue, cache, use_cache, req, text_results,
                   vector_results, combined, log, prev, now, ttls, touched>>

NextHighlight == Highlight

SpecHighlight == InitHighlight /\ [][NextHighlight]_vars

\* No term of the query occurs in the content or in the super_post.
NoTermOccurs ==
    \A i \in DOMAIN Split(Lower(req.query)) :
        /\ ~Contains(Lower(req.content), Split(Lower(req.query))[i])
        /\ ~Contains(Lower(req.super_post), Split(Lower(req.query))[i])

\* C26: for a post in which no query term occurs _generate_highlights returns
\* an empty dict, with neither a 'content' nor a 'super_post' item.
CE_C26 == (pc = "done" /\ NoTermOccurs) => resp = {}

\* The string without its emphasis markers.
RECURSIVE Unmark(_)
Unmark(str) ==
    IF str = <<>> THEN <<>>
    ELSE IF Len(str) >= 4 /\ SubSeq(str, 1, 4) = <<"<", "e", "m", ">">>
    THEN Unmark(SubSeq(str, 5, Len(str)))
    ELSE IF Len(str) >= 5 /\ SubSeq(str, 1, 5) = <<"<", "/", "e", "m", ">">>
    THEN Unmark(SubSeq(str, 6, Len(str)))
    ELSE <<Head(str)>> \o Unmark(Tail(str))

\* C27: the 'content' highlight differs from the content only by the
\* emphasis markers: without them it is the content, character for character.
CE_C27 ==
    (pc = "done" /\ req.content # <<>>) =>
        \E item \in resp : item[1] = "content" /\ Unmark(item[2]) = req.content

\* ------------------------------------------------------------------------
\* SpecDeep: one hybrid search_posts call with limit 1 and any offset over a
\* store of PageDocs matching posts, no cache.
\* ------------------------------------------------------------------------
DeepKinds ==
    {[exists |-> TRUE, is_deleted |-> FALSE, rank |-> 2, sim |-> 1,
      embedded |-> TRUE, agent_id |-> "a1"],
     [exists |-> TRUE, is_deleted |-> FALSE, rank |-> 1, sim |-> 2,
      embedded |-> TRUE, agent_id |-> "a1"]}

DeepRequests ==
    [query : {ValidQuery}, limit : {1}, offset : 0..PageDocs, mode : {"hybrid"},
     agent_id : {None}, min_score : {0}]

InitDeep ==
    /\ posts \in [PageIds -> DeepKinds]
    /\ cache = <<>>
    /\ use_cache = FALSE
    /\ pc = "idle"
    /\ req = NoRequest
    /\ text_results = <<>>
    /\ vector_results = <<>>
    /\ combined = <<>>
    /\ resp = NoResponse
    /\ agents = <<>>
    /\ prev = <<>>
    /\ now = 0
    /\ ttls = <<>>
    /\ touched = {}
    /\ log = {}
    /\ queue = {}

\* One whole search_posts call of a service constructed with use_cache=False.
DeepSearch ==
    \E r \in DeepRequests :
        LET out == SearchPostsNoCache(posts, r, PageTie)
        IN  /\ pc = "idle"
            /\ req' = [NoRequest EXCEPT !.scope = "posts", !.via = "service",
                                        !.query = r.query, !.limit = r.limit,
                                        !.offset = r.offset, !.mode = r.mode,
                                        !.min_score = r.min_score]
            /\ text_results' = out.text
            /\ vector_results' = out.vector
            /\ combined' = out.combined
            /\ resp' = out.response
            /\ pc' = "done"
            /\ UNCHANGED <<posts, agents, cache, use_cache, prev, now, ttls,
                           touched, log, queue>>

NextDeep == DeepSearch

SpecDeep == InitDeep /\ [][NextDeep]_vars

\* The ids of a list of rows.
RowIds(rows) == {rows[i].id : i \in DOMAIN rows}

\* The entities of the fused list of this call, before pagination.
FusedIds == RowIds(text_results) \cup RowIds(vector_results)

\* The first 2 x limit rows of each channel over the whole store.
Overfetched ==
    RowIds(FirstRows(TextRows(posts, None, PageTie), 2 * req.limit))
        \cup RowIds(FirstRows(VectorRows(posts, None, PageTie), 2 * req.limit))

\* C29: in hybrid mode the fused list holds at most 4 x limit entities, a
\* request with offset >= 4 x limit returns count 0 however many posts match,
\* and no offset reaches a post outside the 2 x limit overfetch of both
\* channels.
Thm_C29 ==
    pc = "done" =>
        /\ Cardinality(FusedIds) <= 4 * req.limit
        /\ req.offset >= 4 * req.limit => resp.count = 0 /\ resp.results = <<>>
        /\ \A i \in DOMAIN resp.results : resp.results[i].post_id \in Overfetched

\* A call with offset 4 x limit over a store in which every post matches, the
\* fused list full, and a matching post outside both overfetched batches.
Wit_C29 ==
    /\ pc = "done"
    /\ req.offset = 4 * req.limit
    /\ Cardinality(FusedIds) = 4 * req.limit
    /\ resp.count = 0
    /\ \E p \in PageIds : posts[p].rank > 0 /\ p \notin Overfetched

====
